---------------------------- MODULE Spec2Model ----------------------------
(***************************************************************************)
(* Model of packages/core/src/scripts/whisperx_transcribe.py: the speaker  *)
(* identification core (_cosine_similarity, _identify_speakers) and the    *)
(* part of main that drives it (diarization, identification, output).      *)
(*                                                                         *)
(* Numbers.  A Python float is modelled by the rational it holds, a record *)
(* [n, d] with d > 0.  Voice-prints are drawn from integer vectors whose   *)
(* squared norm is a perfect square: for these math.sqrt, the product of   *)
(* the norms and the dot product are exact in double arithmetic, and the   *)
(* final division is one correctly rounded quotient of two small integers, *)
(* so comparing the rationals orders the doubles exactly as Python does.   *)
(***************************************************************************)
EXTENDS Integers, Sequences, FiniteSets, TLC

VARIABLES
    (* one call of _identify_speakers / _cosine_similarity by a caller *)
    modGlobals,     \* names bound in the module's global namespace
    callObs,        \* argument diarize_embeddings: <<[label, emb], ...>>
    callSource,     \* what embeddings_path names on disk
    callThreshold,  \* argument threshold
    callRet,        \* outcome of the _identify_speakers call, NoRet before
    cosA, cosB,     \* arguments of a direct _cosine_similarity call
    cosRet,         \* its outcome, NoCos before
    (* one run of main *)
    pc,             \* position of main
    hf_token,       \* os.environ.get("HF_TOKEN") is truthy
    embeddings_path,\* args.embeddings_path: None or a path
    source,         \* what args.embeddings_path names on disk
    result,         \* result["segments"]: <<[start, end, text, speaker], ...>>
    diarize_segments,   \* cluster labels of the diarization run, {} before
    diarize_embeddings, \* None or <<[label, emb], ...>>
    speaker_name_map,   \* label -> name
    failed,         \* the step whose exception the except clause caught, or None
    output          \* the JSON document written to stdout, NoOutput before

fnVars == <<modGlobals, callObs, callSource, callThreshold, callRet, cosA, cosB, cosRet>>
mainVars == <<pc, hf_token, embeddings_path, source, result, diarize_segments,
              diarize_embeddings, speaker_name_map, failed, output>>
vars == <<fnVars, mainVars>>

(***************************************************************************)
(* Bounds and input sets                                                   *)
(***************************************************************************)
MaxDim == 2
MaxReg == 2
MaxObs == 2
MaxSegs == 2
MaxMainReg == 1

Comp == {-1, 0, 1}
Names == {"Alice", "Bob"}
\* the cluster labels pyannote hands out, in the order of diarization.labels()
LabelSeq == <<"SPEAKER_00", "SPEAKER_01", "SPEAKER_02">>
None == "<None>"
NotCalled == "<not called>"

Min(x, y) == IF x <= y THEN x ELSE y

Labels == {LabelSeq[i] : i \in 1..Min(MaxObs, Len(LabelSeq))}

RECURSIVE SumSeq(_)
SumSeq(s) == IF s = <<>> THEN 0 ELSE Head(s) + SumSeq(Tail(s))

IsSquare(n) == \E r \in 0..n : r * r = n

Vectors ==
    {v \in UNION {[1..d -> Comp] : d \in 1..MaxDim} :
        IsSquare(SumSeq([i \in 1..Len(v) |-> v[i] * v[i]]))}

EmptyMap == [x \in {} |-> x]

(***************************************************************************)
(* Python floats as rationals                                              *)
(***************************************************************************)
Rat(n, d) == [n |-> n, d |-> d]
RatGT(x, y) == x.n * y.d > y.n * x.d
RatGE(x, y) == x.n * y.d >= y.n * x.d
RatEQ(x, y) == x.n * y.d = y.n * x.d

\* math.sqrt on a perfect square
Sqrt(n) == CHOOSE r \in 0..n : r * r = n

(***************************************************************************)
(* _cosine_similarity, lines 146-155                                       *)
(***************************************************************************)
\* zip(a, b): pairs up to the shorter argument
Zip(a, b) == [i \in 1..Min(Len(a), Len(b)) |-> <<a[i], b[i]>>]

_cosine_similarity(a, b) ==
    LET z == Zip(a, b)
        dot == SumSeq([i \in 1..Len(z) |-> z[i][1] * z[i][2]])
        norm_a == Sqrt(SumSeq([i \in 1..Len(a) |-> a[i] * a[i]]))
        norm_b == Sqrt(SumSeq([i \in 1..Len(b) |-> b[i] * b[i]]))
    IN  IF norm_a = 0 \/ norm_b = 0
        THEN Rat(0, 1)
        ELSE Rat(dot, norm_a * norm_b)


(***************************************************************************)
(* The registry file and json.load, lines 175-182                          *)
(*                                                                         *)
(* What embeddings_path names: nothing ("absent"), a file that is not JSON *)
(* ("invalid"), or a file holding one JSON value.  A JSON value is         *)
(* [kind, size, entries]: size is what Python's truth test looks at (the   *)
(* length of a list, string or object, the value of a number, 0 for null); *)
(* entries is the dict json.load builds from an object, in file order,     *)
(* names distinct and non-empty, <<>> for every other kind.                *)
(***************************************************************************)
Registries ==
    {r \in UNION {[1..k -> [name : Names, emb : Vectors]] : k \in 0..MaxReg} :
        \A i, j \in 1..Len(r) : i # j => r[i].name # r[j].name}

Absent == [kind |-> "absent", size |-> 0, entries |-> <<>>]
Invalid == [kind |-> "invalid", size |-> 0, entries |-> <<>>]
JsonObject(r) == [kind |-> "object", size |-> Len(r), entries |-> r]
NonMappings ==
    {[kind |-> "null", size |-> 0, entries |-> <<>>]}
    \cup {[kind |-> k, size |-> n, entries |-> <<>>] :
            k \in {"list", "number", "string"}, n \in {0, 1}}
Sources == {Absent, Invalid} \cup NonMappings \cup {JsonObject(r) : r \in Registries}

\* os.path.exists(embeddings_path)
Exists(src) == src.kind # "absent"
\* Python's truth test of a loaded JSON value (not registered is ~Truthy)
Truthy(v) == v.size > 0
\* Python's truth test of a str-or-None
TruthyStr(s) == s # None /\ s # ""

(***************************************************************************)
(* The module's global namespace, lines 26-29.  main's "import os" (line   *)
(* 46) binds os as a local of main, so os is no global of the module.      *)
(***************************************************************************)
ModuleGlobals == {"argparse", "json", "sys", "warnings"}

(***************************************************************************)
(* _identify_speakers, lines 158-212                                       *)
(*                                                                         *)
(* The outcome is [exc, map, calls]: exc is None when the call returns and *)
(* the exception's class when it raises; map is the returned dict; calls   *)
(* counts the calls of _cosine_similarity made.                            *)
(* The lines written to stderr (202-210) change no state and are left out; *)
(* numpy (line 173) is taken to be installed, as whisperx requires it.     *)
(***************************************************************************)
DefaultThreshold == Rat(1, 2)

Returns(map, calls) == [exc |-> None, map |-> map, calls |-> calls]
Raises(exc, calls) == [exc |-> exc, map |-> EmptyMap, calls |-> calls]

\* lines 186-190: the embeddings arrive as lists; list(emb) copies the list
EmbList(emb) == [i \in 1..Len(emb) |-> emb[i]]

\* lines 192-198: the scan of registered.items() from entry i on
RECURSIVE BestMatch(_, _, _, _, _)
BestMatch(emb_list, entries, i, best_name, best_score) ==
    IF i > Len(entries)
    THEN [name |-> best_name, score |-> best_score]
    ELSE LET score == _cosine_similarity(emb_list, entries[i].emb)
         IN  IF RatGT(score, best_score)
             THEN BestMatch(emb_list, entries, i + 1, entries[i].name, score)
             ELSE BestMatch(emb_list, entries, i + 1, best_name, best_score)

\* lines 200-201: the acceptance test
Accepted(best, threshold) == TruthyStr(best.name) /\ RatGE(best.score, threshold)

\* lines 185-212: the loop over diarize_embeddings.items() from item i on
RECURSIVE MatchLoop(_, _, _, _, _, _)
MatchLoop(obs, registered, threshold, i, map, calls) ==
    IF i > Len(obs)
    THEN Returns(map, calls)
    ELSE IF registered.kind # "object"
    THEN Raises("AttributeError", calls)    \* line 194: no .items()
    ELSE LET best == BestMatch(EmbList(obs[i].emb), registered.entries, 1,
                               None, Rat(-1, 1))
             calls2 == calls + Len(registered.entries)
         IN  IF Accepted(best, threshold)
             THEN MatchLoop(obs, registered, threshold, i + 1,
                            (obs[i].label :> best.name) @@ map, calls2)
             ELSE MatchLoop(obs, registered, threshold, i + 1, map, calls2)

_identify_speakers(globals, obs, src, threshold) ==
    IF "os" \notin globals
    THEN Raises("NameError", 0)             \* line 175: os is not defined
    ELSE IF ~Exists(src)
    THEN Returns(EmptyMap, 0)               \* lines 175-176
    ELSE IF src.kind = "invalid"
    THEN Raises("JSONDecodeError", 0)       \* line 179
    ELSE IF ~Truthy(src)
    THEN Returns(EmptyMap, 0)               \* lines 181-182
    ELSE MatchLoop(obs, src, threshold, 1, EmptyMap, 0)

(***************************************************************************)
(* A caller of the two functions.  The inputs of one call are drawn in the *)
(* initial state; the action applies the function to them.  os is a free   *)
(* name of _identify_speakers, looked up in the module's globals when the  *)
(* call runs: the caller finds the namespace as the module left it, or has *)
(* bound os in it before calling.                                          *)
(***************************************************************************)
CallerGlobals == {ModuleGlobals, ModuleGlobals \cup {"os"}}

\* diarize_embeddings: a dict label -> list, as a sequence in iteration order
Observations ==
    {o \in UNION {[1..k -> [label : Labels, emb : Vectors]] : k \in 0..MaxObs} :
        \A i, j \in 1..Len(o) : i # j => o[i].label # o[j].label}

Thresholds == {Rat(-2, 1), Rat(-1, 1), Rat(0, 1), DefaultThreshold, Rat(1, 1)}

\* the value None of diarize_embeddings, and a dict of embeddings
NoneEmbeddings == [none |-> TRUE, items |-> <<>>]
SomeEmbeddings(items) == [none |-> FALSE, items |-> items]

\* nothing written to stdout yet
NoOutput ==
    [emitted |-> FALSE, text |-> <<>>, language |-> None, segments |-> <<>>,
     has_speaker_embeddings |-> FALSE, speaker_embeddings |-> <<>>]

NoRet == [exc |-> NotCalled, map |-> EmptyMap, calls |-> 0]
NoCos == [called |-> FALSE, exc |-> None, value |-> Rat(0, 1)]

NoIdentifyCall ==
    /\ modGlobals = ModuleGlobals
    /\ callObs = <<>>
    /\ callSource = Absent
    /\ callThreshold = DefaultThreshold
    /\ callRet = NoRet

NoCosineCall ==
    /\ cosA = <<>>
    /\ cosB = <<>>
    /\ cosRet = NoCos

NoMain ==
    /\ pc = "idle"
    /\ hf_token = FALSE
    /\ embeddings_path = None
    /\ source = Absent
    /\ result = <<>>
    /\ diarize_segments = {}
    /\ diarize_embeddings = NoneEmbeddings
    /\ speaker_name_map = EmptyMap
    /\ failed = None
    /\ output = NoOutput

InitIdentify ==
    /\ modGlobals \in CallerGlobals
    /\ callObs \in Observations
    /\ callSource \in Sources
    /\ callThreshold \in Thresholds
    /\ callRet = NoRet
    /\ NoCosineCall
    /\ NoMain

InitCosine ==
    /\ cosA \in Vectors
    /\ cosB \in Vectors
    /\ cosRet = NoCos
    /\ NoIdentifyCall
    /\ NoMain

CallIdentify ==
    /\ callRet.exc = NotCalled
    /\ cosA = <<>>
    /\ callRet' = _identify_speakers(modGlobals, callObs, callSource, callThreshold)
    /\ UNCHANGED <<modGlobals, callObs, callSource, callThreshold, cosA, cosB, cosRet>>
    /\ UNCHANGED mainVars

CallCosine ==
    /\ cosA # <<>>
    /\ ~cosRet.called
    /\ cosRet' = [called |-> TRUE, exc |-> None, value |-> _cosine_similarity(cosA, cosB)]
    /\ UNCHANGED <<modGlobals, callObs, callSource, callThreshold, callRet, cosA, cosB>>
    /\ UNCHANGED mainVars

InitCall == InitCosine \/ InitIdentify
NextCall == CallIdentify \/ CallCosine
SpecCall == InitCall /\ [][NextCall]_vars

(***************************************************************************)
(* main, lines 34-143                                                      *)
(*                                                                         *)
(* The speech-to-text, alignment and diarization engines are collaborators *)
(* whose results are drawn from small sets; each may raise.  pc names the  *)
(* statement main is about to run.                                         *)
(***************************************************************************)
Language == "ja"                        \* --language, line 37
EmbeddingsFile == "speaker_embeddings.json"
Texts == {" ", " hi "}
MainVectors == {<<1, 0>>, <<0, 1>>}

MainRegistries ==
    {r \in UNION {[1..k -> [name : Names, emb : MainVectors]] : k \in 0..MaxMainReg} :
        \A i, j \in 1..Len(r) : i # j => r[i].name # r[j].name}
MainSources ==
    {Absent, Invalid} \cup NonMappings \cup {JsonObject(r) : r \in MainRegistries}

\* result["segments"] after whisperx.align: no segment has a speaker yet
AlignedResults ==
    UNION {[1..k -> [start : {0}, end : {1}, text : Texts, speaker : {None}]] :
            k \in 0..MaxSegs}

\* the labels of a diarization run that found n voices
RunLabels(n) == {LabelSeq[i] : i \in 1..n}
\* the embeddings dict of such a run, one list per label
RunEmbeddings(n) ==
    {[i \in 1..n |-> [label |-> LabelSeq[i], emb |-> v[i]]] : v \in [1..n -> MainVectors]}

\* str.strip() on the texts drawn
Strip(t) == IF t = " hi " THEN "hi" ELSE ""

\* dict.get(k, default)
DictGet(map, k, default) == IF k \in DOMAIN map THEN map[k] ELSE default

\* a lookup without the fallback: speaker_name_map.get(raw_speaker)
MutSpeakerOf(map, raw_speaker) ==
    IF TruthyStr(raw_speaker) THEN DictGet(map, raw_speaker, None) ELSE None

\* line 115
SpeakerOf(map, raw_speaker) ==
    IF TruthyStr(raw_speaker) THEN DictGet(map, raw_speaker, raw_speaker) ELSE None

\* lines 116-123
SegmentOut(seg, map) ==
    [start |-> seg.start * 1000, end |-> seg.end * 1000,
     text |-> Strip(seg.text), speaker |-> SpeakerOf(map, seg.speaker)]

\* line 125: the texts " ".join joins, in order
RECURSIVE NonEmptyTexts(_)
NonEmptyTexts(segs) ==
    IF segs = <<>> THEN <<>>
    ELSE IF Head(segs).text # ""
    THEN <<Head(segs).text>> \o NonEmptyTexts(Tail(segs))
    ELSE NonEmptyTexts(Tail(segs))

\* the embeddings left out once the try block has failed
MutSpeakerEmbeddingsOut(emb) ==
    IF failed # None THEN <<>>
    ELSE [i \in 1..Len(emb.items) |->
            [label |-> emb.items[i].label, emb |-> emb.items[i].emb]]

\* lines 135-140
SpeakerEmbeddingsOut(emb) ==
    [i \in 1..Len(emb.items) |->
        [label |-> emb.items[i].label, emb |-> EmbList(emb.items[i].emb)]]

\* line 108: except Exception catches every class that derives from Exception
ExceptionClasses == {"RuntimeError", "NameError", "JSONDecodeError", "AttributeError"}
\* a narrower clause: except RuntimeError
MutCaught(exc) == exc = "RuntimeError"
Caught(exc) == exc \in ExceptionClasses

\* lines 108-109: an exception raised in the try block at step
Except(step, exc) ==
    /\ failed' = step
    /\ pc' = IF Caught(exc) THEN "build" ELSE "aborted"

Init ==
    /\ pc = "transcribe"
    /\ hf_token \in BOOLEAN
    /\ embeddings_path \in {None, EmbeddingsFile}
    /\ source \in (IF embeddings_path = None THEN {Absent} ELSE MainSources)
    /\ result = <<>>
    /\ diarize_segments = {}
    /\ diarize_embeddings = NoneEmbeddings
    /\ speaker_name_map = EmptyMap
    /\ failed = None
    /\ output = NoOutput
    /\ NoIdentifyCall
    /\ NoCosineCall

\* lines 77-92: transcribe, align, then enter step 3 or skip it
Transcribe ==
    /\ pc = "transcribe"
    /\ result' \in AlignedResults
    /\ pc' = IF hf_token THEN "construct" ELSE "build"
    /\ UNCHANGED <<hf_token, embeddings_path, source, diarize_segments,
                   diarize_embeddings, speaker_name_map, failed, output>>
    /\ UNCHANGED fnVars

\* lines 77-86 raise outside any try: the process ends with a traceback
TranscribeFails ==
    /\ pc = "transcribe"
    /\ pc' = "aborted"
    /\ UNCHANGED <<hf_token, embeddings_path, source, result, diarize_segments,
                   diarize_embeddings, speaker_name_map, failed, output>>
    /\ UNCHANGED fnVars

\* line 96
Construct ==
    /\ pc = "construct"
    /\ pc' = "diarize"
    /\ UNCHANGED <<hf_token, embeddings_path, source, result, diarize_segments,
                   diarize_embeddings, speaker_name_map, failed, output>>
    /\ UNCHANGED fnVars

ConstructFails ==
    /\ pc = "construct"
    /\ Except("construct", "RuntimeError")
    /\ UNCHANGED <<hf_token, embeddings_path, source, result, diarize_segments,
                   diarize_embeddings, speaker_name_map, output>>
    /\ UNCHANGED fnVars

\* lines 97-101: the pipeline returns (segments, embeddings); embeddings may be None
DiarizeTuple ==
    /\ pc = "diarize"
    /\ \E n \in 0..Min(MaxObs, Len(LabelSeq)) :
        /\ diarize_segments' = RunLabels(n)
        /\ diarize_embeddings' \in
              {NoneEmbeddings} \cup {SomeEmbeddings(e) : e \in RunEmbeddings(n)}
    /\ pc' = "assign"
    /\ UNCHANGED <<hf_token, embeddings_path, source, result, speaker_name_map,
                   failed, output>>
    /\ UNCHANGED fnVars

\* lines 97-100: the pipeline returns the segments alone, not a tuple
DiarizePlain ==
    /\ pc = "diarize"
    /\ \E n \in 0..Min(MaxObs, Len(LabelSeq)) : diarize_segments' = RunLabels(n)
    /\ pc' = "assign"
    /\ UNCHANGED <<hf_token, embeddings_path, source, result, diarize_embeddings,
                   speaker_name_map, failed, output>>
    /\ UNCHANGED fnVars

DiarizeFails ==
    /\ pc = "diarize"
    /\ Except("diarize", "RuntimeError")
    /\ UNCHANGED <<hf_token, embeddings_path, source, result, diarize_segments,
                   diarize_embeddings, speaker_name_map, output>>
    /\ UNCHANGED fnVars

\* line 103: each segment gets the label of an overlapping cluster, or none
Assign ==
    /\ pc = "assign"
    /\ \E sp \in [1..Len(result) -> diarize_segments \cup {None}] :
        result' = [i \in 1..Len(result) |-> [result[i] EXCEPT !.speaker = sp[i]]]
    /\ pc' = "identify"
    /\ UNCHANGED <<hf_token, embeddings_path, source, diarize_segments,
                   diarize_embeddings, speaker_name_map, failed, output>>
    /\ UNCHANGED fnVars

AssignFails ==
    /\ pc = "assign"
    /\ Except("assign", "RuntimeError")
    /\ UNCHANGED <<hf_token, embeddings_path, source, result, diarize_segments,
                   diarize_embeddings, speaker_name_map, output>>
    /\ UNCHANGED fnVars

\* lines 105-109: the call of _identify_speakers, with the default threshold
Identify ==
    /\ pc = "identify"
    /\ IF ~diarize_embeddings.none /\ TruthyStr(embeddings_path)
       THEN LET ret == _identify_speakers(ModuleGlobals, diarize_embeddings.items,
                                          source, DefaultThreshold)
            IN  IF ret.exc = None
                THEN /\ speaker_name_map' = ret.map
                     /\ pc' = "build"
                     /\ UNCHANGED failed
                ELSE /\ Except("identify", ret.exc)
                     /\ UNCHANGED speaker_name_map
       ELSE /\ pc' = "build"
            /\ UNCHANGED <<speaker_name_map, failed>>
    /\ UNCHANGED <<hf_token, embeddings_path, source, result, diarize_segments,
                   diarize_embeddings, output>>
    /\ UNCHANGED fnVars

\* lines 111-131
BuildOutput ==
    /\ pc = "build"
    /\ LET segments == [i \in 1..Len(result) |-> SegmentOut(result[i], speaker_name_map)]
       IN  output' = [output EXCEPT !.text = NonEmptyTexts(segments),
                                    !.language = Language,
                                    !.segments = segments]
    /\ pc' = "emit"
    /\ UNCHANGED <<hf_token, embeddings_path, source, result, diarize_segments,
                   diarize_embeddings, speaker_name_map, failed>>
    /\ UNCHANGED fnVars

\* lines 133-143
EmitOutput ==
    /\ pc = "emit"
    /\ output' = [output EXCEPT
                    !.emitted = TRUE,
                    !.has_speaker_embeddings = ~diarize_embeddings.none,
                    !.speaker_embeddings =
                        IF diarize_embeddings.none THEN <<>>
                        ELSE SpeakerEmbeddingsOut(diarize_embeddings)]
    /\ pc' = "done"
    /\ UNCHANGED <<hf_token, embeddings_path, source, result, diarize_segments,
                   diarize_embeddings, speaker_name_map, failed>>
    /\ UNCHANGED fnVars

Next ==
    \/ Transcribe
    \/ TranscribeFails
    \/ Construct
    \/ ConstructFails
    \/ DiarizeTuple
    \/ DiarizePlain
    \/ DiarizeFails
    \/ Assign
    \/ AssignFails
    \/ Identify
    \/ BuildOutput
    \/ EmitOutput

Spec == Init /\ [][Next]_vars

(***************************************************************************)
(* The quantities the properties speak of, defined apart from the code:    *)
(* the cosine of two vectors of one dimension, the maximum similarity of a *)
(* voice-print against a registry, and the entries that attain it.         *)
(***************************************************************************)
Cosine(a, b) ==
    LET dot == SumSeq([i \in 1..Len(a) |-> a[i] * b[i]])
        na == Sqrt(SumSeq([i \in 1..Len(a) |-> a[i] * a[i]]))
        nb == Sqrt(SumSeq([i \in 1..Len(b) |-> b[i] * b[i]]))
    IN  IF na = 0 \/ nb = 0 THEN Rat(0, 1) ELSE Rat(dot, na * nb)

SameDim(e, entries) == \A j \in 1..Len(entries) : Len(entries[j].emb) = Len(e)

MaxSim(e, entries) ==
    LET scores == {Cosine(e, entries[j].emb) : j \in 1..Len(entries)}
    IN  CHOOSE m \in scores : \A t \in scores : RatGE(m, t)

Attaining(e, entries) ==
    {j \in 1..Len(entries) : RatEQ(Cosine(e, entries[j].emb), MaxSim(e, entries))}

FirstOf(S) == CHOOSE j \in S : \A k \in S : j <= k

Called == callRet.exc # NotCalled
Returned == callRet.exc = None
NonEmptyRegistry(src) == src.kind = "object" /\ src.entries # <<>>

(***************************************************************************)
(* C1.  For every non-empty registry, observation and threshold, the label *)
(* is in the map _identify_speakers returns if and only if the maximum     *)
(* cosine similarity of its voice-print against the registry is at least   *)
(* the threshold, and the name it is mapped to is an entry attaining that  *)
(* maximum; also for a maximum of -1 and a threshold at or below -1.       *)
(***************************************************************************)
C1_MappedIffMaxAtLeastThreshold ==
    (Called /\ NonEmptyRegistry(callSource)) =>
        \A i \in 1..Len(callObs) :
            LET o == callObs[i]
                entries == callSource.entries
            IN  SameDim(o.emb, entries) =>
                    /\ Returned
                    /\ (o.label \in DOMAIN callRet.map)
                          <=> RatGE(MaxSim(o.emb, entries), callThreshold)
                    /\ (o.label \in DOMAIN callRet.map) =>
                          \E j \in Attaining(o.emb, entries) :
                              entries[j].name = callRet.map[o.label]

(***************************************************************************)
(* C3.  A registry source that exists but is not a name-to-vector mapping  *)
(* (invalid JSON, or JSON that is no object) makes identification raise:   *)
(* it is never taken for an empty registry and yields no match result.     *)
(***************************************************************************)
MalformedKinds == {"invalid", "null", "list", "number", "string"}

C4_UnequalLengthsRaise ==
    /\ (cosRet.called /\ Len(cosA) # Len(cosB)) => cosRet.exc = "DimensionMismatch"
    /\ Returned =>
          \A i \in 1..Len(callObs) : \A j \in 1..Len(callSource.entries) :
              (/\ callObs[i].label \in DOMAIN callRet.map
               /\ callRet.map[callObs[i].label] = callSource.entries[j].name)
                  => Len(callObs[i].emb) = Len(callSource.entries[j].emb)

(***************************************************************************)
(* C5.  With the registry source absent, or present and holding an empty   *)
(* mapping, _identify_speakers returns the empty map, makes no call of     *)
(* _cosine_similarity and does not raise.                                  *)
(***************************************************************************)
C5_NoRegistryGivesEmptyMap ==
    (Called /\ (~Exists(callSource) \/ callSource = JsonObject(<<>>)))
        => callRet = Returns(EmptyMap, 0)

(***************************************************************************)
(* C6.  When two or more entries share the maximum similarity and it is at *)
(* least the threshold, the label is mapped to the one that comes first in *)
(* the registry's iteration order.                                         *)
(***************************************************************************)
C6_TieGoesToFirstEntry ==
    (Called /\ NonEmptyRegistry(callSource)) =>
        \A i \in 1..Len(callObs) :
            LET o == callObs[i]
                entries == callSource.entries
            IN  (/\ SameDim(o.emb, entries)
                 /\ Cardinality(Attaining(o.emb, entries)) >= 2
                 /\ RatGE(MaxSim(o.emb, entries), callThreshold))
                    => /\ Returned
                       /\ o.label \in DOMAIN callRet.map
                       /\ callRet.map[o.label] = entries[FirstOf(Attaining(o.emb, entries))].name

(***************************************************************************)
(* C9.  The decision for an observation is the one the call makes for that *)
(* observation alone, whatever other observations the run holds; and two   *)
(* labels whose best entry, at or above the threshold, is the same entry   *)
(* are both mapped to its name.                                            *)
(***************************************************************************)
Decision(ret, label) ==
    IF ret.exc # None THEN "<raised>"
    ELSE IF label \in DOMAIN ret.map THEN ret.map[label] ELSE None

C9_DecisionsAreIndependent ==
    (Called /\ NonEmptyRegistry(callSource)) =>
        /\ \A i \in 1..Len(callObs) :
              Decision(callRet, callObs[i].label) =
                  Decision(_identify_speakers(modGlobals, <<callObs[i]>>, callSource,
                                              callThreshold),
                           callObs[i].label)
        /\ \A i, k \in 1..Len(callObs) :
              LET entries == callSource.entries
                  a == callObs[i]
                  b == callObs[k]
              IN  (/\ i # k
                   /\ SameDim(a.emb, entries) /\ SameDim(b.emb, entries)
                   /\ RatGE(MaxSim(a.emb, entries), callThreshold)
                   /\ RatGE(MaxSim(b.emb, entries), callThreshold)
                   /\ FirstOf(Attaining(a.emb, entries)) = FirstOf(Attaining(b.emb, entries)))
                      => /\ Returned
                         /\ a.label \in DOMAIN callRet.map
                         /\ b.label \in DOMAIN callRet.map
                         /\ callRet.map[a.label] = entries[FirstOf(Attaining(a.emb, entries))].name
                         /\ callRet.map[b.label] = callRet.map[a.label]

(***************************************************************************)
(* C2.  With diarization on, cluster voice-prints returned, a well-formed  *)
(* non-empty registry at --embeddings-path and a cluster whose best        *)
(* similarity is at least 0.5, every output segment carrying the cluster's *)
(* label has the matched registry name as its speaker.                     *)
(***************************************************************************)
C2_MatchReachesSegments ==
    (/\ pc = "done"
     /\ hf_token
     /\ ~diarize_embeddings.none
     /\ TruthyStr(embeddings_path)
     /\ NonEmptyRegistry(source)) =>
        \A k \in 1..Len(diarize_embeddings.items) :
            LET o == diarize_embeddings.items[k]
                entries == source.entries
            IN  (SameDim(o.emb, entries) /\ RatGE(MaxSim(o.emb, entries), DefaultThreshold))
                    => \A i \in 1..Len(result) :
                          result[i].speaker = o.label =>
                              \E j \in Attaining(o.emb, entries) :
                                  output.segments[i].speaker = entries[j].name

(***************************************************************************)
(* C7.  An output segment whose source segment carries a cluster label has *)
(* as speaker the name the match result maps the label to when the label   *)
(* is a key of it, and the raw label otherwise; it is never null.          *)
(***************************************************************************)
C7_SpeakerIsMappedNameOrRawLabel ==
    pc = "done" =>
        /\ Len(output.segments) = Len(result)
        /\ \A i \in 1..Len(result) :
              LET raw == result[i].speaker
              IN  TruthyStr(raw) =>
                      /\ output.segments[i].speaker =
                            (IF raw \in DOMAIN speaker_name_map
                             THEN speaker_name_map[raw] ELSE raw)
                      /\ output.segments[i].speaker # None

\* a finished run with no match for a label a segment carries
W7_UnmatchedLabelPassedThrough ==
    /\ pc = "done"
    /\ \E i \in 1..Len(result) :
          /\ result[i].speaker \in diarize_segments
          /\ result[i].speaker \notin DOMAIN speaker_name_map
          /\ output.segments[i].speaker = result[i].speaker

(***************************************************************************)
(* C8.  When the diarization run produced cluster voice-prints, the output *)
(* holds speaker_embeddings with exactly one entry per cluster label of    *)
(* the run, keyed by the raw label, whatever became of identification.     *)
(***************************************************************************)
C8_ClusterEmbeddingsSurfaced ==
    (pc = "done" /\ ~diarize_embeddings.none) =>
        /\ output.has_speaker_embeddings
        /\ Len(output.speaker_embeddings) = Cardinality(diarize_segments)
        /\ {output.speaker_embeddings[k].label : k \in 1..Len(output.speaker_embeddings)}
              = diarize_segments

\* a finished run whose identification failed, with two clusters surfaced
W8_EmbeddingsSurfacedAfterFailure ==
    /\ pc = "done"
    /\ failed = "identify"
    /\ Len(output.speaker_embeddings) >= 2

(***************************************************************************)
(* C10.  An exception raised while constructing the diarizer, diarizing,   *)
(* assigning word speakers or identifying speakers is caught in main: the  *)
(* run goes on to the output step and emits text, language and segments,   *)
(* the speaker name map stays empty, and each segment's speaker is the raw *)
(* label it had when the failure occurred, or null.                        *)
(***************************************************************************)
C10_FailuresCaughtAndNothingRenamed ==
    failed # None =>
        /\ pc # "aborted"
        /\ speaker_name_map = EmptyMap
        /\ pc # "done" => ENABLED Next
        /\ pc = "done" =>
              /\ output.emitted
              /\ output.language = Language
              /\ output.text = NonEmptyTexts(output.segments)
              /\ Len(output.segments) = Len(result)
              /\ \A i \in 1..Len(result) :
                    output.segments[i].speaker = result[i].speaker

\* a finished run whose identification raised, a raw label in its output
W10_IdentifyFailedLabelsKept ==
    /\ pc = "done"
    /\ failed = "identify"
    /\ output.emitted
    /\ \E i \in 1..Len(output.segments) : output.segments[i].speaker \in diarize_segments

=============================================================================
